---- MODULE Spec2Model ----
(***************************************************************************)
(* scrobble-me-this: a command line tool that authenticates with Last.fm   *)
(* once and then submits the (artist, track) rows of a CSV input one by    *)
(* one (src/index.mjs).                                                    *)
(*                                                                         *)
(* The model follows the top-level control flow of index.mjs.  One action  *)
(* is one run of the script between two suspension points (await), split   *)
(* per loop iteration.  Strings that the script builds with template       *)
(* literals are tuples here: <<"Scrobbled", artist, track>>.               *)
(*                                                                         *)
(* The CSV input is a sequence of lines, a line being the sequence of its  *)
(* raw fields under the configured delimiter; <<>> is an empty line.       *)
(*                                                                         *)
(* The clock only moves while the script awaits, and never backwards.  A   *)
(* run that ends by the error thrown again in debug mode is pc = "fault":  *)
(* the script sets no exit code there.  parseArgs rejecting the command    *)
(* line is outside the model: a run starts with the options parsed.        *)
(***************************************************************************)
EXTENDS Integers, Sequences, FiniteSets, TLC

\* ------------------------------------------------------------------ bounds

\* Longest input, in lines.
MaxLines == 3

\* The clock value (ms) at which a run starts.
StartMs == 1000000

\* The longer of the two durations (ms) an awaited operation may take.
LatencyMs == 900

\* ---------------------------------------------------------------- the code

\* index.mjs:248  setTimeout(resolve, 200)
PauseMs == 200

\* index.mjs:241  (records.length - i) * 30
SpacingSec == 30

\* index.mjs:9-33  the options declared required, in declaration order
Required == <<"api-key", "api-secret", "username", "password">>

\* A JavaScript undefined (an option not given, a column that is not there).
Undefined == "<undefined>"

\* JavaScript truthiness of a string-or-undefined value: !v is Falsy(v).
Falsy(v) == v = Undefined \/ v = ""

\* a || b
Or(a, b) == IF Falsy(a) THEN b ELSE a

\* How long an awaited operation (request, file read) may take.
Latencies == {0, LatencyMs}

\* --------------------------------------------------------------- CSV input

\* A field whose opening quote is never closed.
BadQuote == "\"R"

\* The lines an input is made of: an empty line; a line that is a header
\* row in header mode and a row of two fields otherwise; a row whose first
\* field is blank; a row of one field; a row that does not parse.
Lines ==
  { <<>>,
    <<"artist", "title">>,
    <<" ", "P">>,
    <<"R">>,
    <<BadQuote>> }

\* All sequences over S of length at most n.
SeqUpTo(S, n) == UNION { [1..k -> S] : k \in 0..n }

\* What a read of the input may return.
Inputs == SeqUpTo(Lines, MaxLines)

\* csv-parse option trim: true, on the fields of the vocabulary.
Trim(f) == IF f = " " THEN "" ELSE f

\* The record csv-parse makes of a line under columns: <<c1, ..., cn>>: an
\* object keyed by column name (a later column of the same name wins).
ToObject(columns, fields) ==
  [ name \in { columns[k] : k \in 1..Len(columns) } |->
      LET ks == { k \in 1..Len(columns) : columns[k] = name }
          last == CHOOSE k \in ks : \A j \in ks : j <= k
      IN fields[last] ]

\* A line with a quote that is never closed.
Unclosed(line) == \E j \in 1..Len(line) : line[j] = BadQuote

\* csv-parse's parse(input, {delimiter, columns, skip_empty_lines: true,
\* trim: true}): [ok |-> TRUE, records |-> ...], or [ok |-> FALSE] when the
\* parser throws (a quote that is not closed, a record whose field count is
\* not that of the first record / of the header row).
parse(input, columns) ==
  LET nonEmpty == SelectSeq(input, LAMBDA l : l # <<>>)
      trimmed  == [ k \in 1..Len(nonEmpty) |->
                      [ j \in 1..Len(nonEmpty[k]) |-> Trim(nonEmpty[k][j]) ] ]
      quoted   == \E k \in 1..Len(nonEmpty) : Unclosed(nonEmpty[k])
      ragged   == \E k \in 1..Len(trimmed) : Len(trimmed[k]) # Len(trimmed[1])
  IN IF quoted \/ ragged
       THEN [ok |-> FALSE, records |-> <<>>]
       ELSE IF ~columns
         THEN [ok |-> TRUE, records |-> trimmed]
         ELSE IF trimmed = <<>>
           THEN [ok |-> TRUE, records |-> <<>>]
           ELSE [ok |-> TRUE,
                 records |-> [ k \in 1..(Len(trimmed) - 1) |->
                                 ToObject(trimmed[1], trimmed[k + 1]) ]]

\* parseCsv that leaves out the lines that do not parse and keeps the rest.
parseCsv_SkipBadLines(csvData, header) ==
  parse(SelectSeq(csvData, LAMBDA l : ~Unclosed(l)), header)

\* index.mjs:177-186
parseCsv(csvData, header) == parse(csvData, header)

\* record.name
Prop(record, name) == IF name \in DOMAIN record THEN record[name] ELSE Undefined

\* index.mjs:223-231  the artist of a record
ResolveArtist(record, header) ==
  IF header
    THEN Or(Prop(record, "artist"), Prop(record, "Artist"))
    ELSE Prop(record, 1)

\* ResolveTrack that looks at the title columns before the track columns.
ResolveTrack_TitleFirst(record, header) ==
  IF header
    THEN Or(Or(Or(Prop(record, "title"), Prop(record, "Title")),
               Prop(record, "track")), Prop(record, "Track"))
    ELSE Prop(record, 2)

\* index.mjs:223-231  the track of a record
ResolveTrack(record, header) ==
  IF header
    THEN Or(Or(Or(Prop(record, "track"), Prop(record, "Track")),
               Prop(record, "title")), Prop(record, "Title"))
    ELSE Prop(record, 2)

\* Resolves with the check of the track left out.
Resolves_ArtistOnly(record, header) == ~Falsy(ResolveArtist(record, header))

\* index.mjs:233  the negation of (!artist || !track)
Resolves(record, header) ==
  ~Falsy(ResolveArtist(record, header)) /\ ~Falsy(ResolveTrack(record, header))

\* ------------------------------------------------------------------- state

VARIABLES
  values,        \* parseArgs result: the options (index.mjs:189)
  positionals,   \* parseArgs result: the positional arguments (index.mjs:189)
  pc,            \* where the script is
  now,           \* Date.now(), ms
  inflight,      \* the requests sent and not yet answered (indices of calls)
  sessionKey,    \* index.mjs:206
  csvData,       \* index.mjs:210
  records,       \* index.mjs:211
  i,             \* index.mjs:217
  successCount,  \* index.mjs:215
  errorCount,    \* index.mjs:216
  stdout,        \* what was written to process.stdout
  stderr,        \* what was written to process.stderr
  exitCode,      \* the code the process ended with, NotExited before
  calls,         \* history: every request sent, in order
  answers,       \* history: what the service answered, answers[k] to calls[k]
  reads,         \* history: the sources the input was read from
  visited,       \* history: the rows the loop body entered, in order
  pauses,        \* history: number of 200 ms timers started
  fnCall,        \* the arguments of a function called on its own
  fnReturn       \* and what it returned

vars == <<values, positionals, pc, now, inflight, sessionKey, csvData, records, i,
          successCount, errorCount, stdout, stderr, exitCode, calls, answers,
          reads, visited, pauses, fnCall, fnReturn>>

\* The variables of a function called on its own, which the script leaves alone.
fn == <<fnCall, fnReturn>>

\* exitCode while the process runs, and after it died of an uncaught error.
NotExited == -1

\* The values an option of type string may have after parseArgs.
OptionValues == {Undefined, "", "v"}

Init ==
  /\ values \in [ help : BOOLEAN, debug : BOOLEAN, header : BOOLEAN,
                  given : [ {Required[k] : k \in 1..Len(Required)} -> OptionValues ] ]
  /\ positionals \in {<<>>, <<"tracks.csv">>}
  /\ pc = "start"
  /\ now = StartMs
  /\ inflight = {}
  /\ sessionKey = Undefined
  /\ csvData = [status |-> "unread", text |-> <<>>]
  /\ records = <<>>
  /\ i = 0
  /\ successCount = 0
  /\ errorCount = 0
  /\ stdout = <<>>
  /\ stderr = <<>>
  /\ exitCode = NotExited
  /\ calls = <<>>
  /\ answers = <<>>
  /\ reads = <<>>
  /\ visited = <<>>
  /\ pauses = 0
  /\ fnCall = <<>>
  /\ fnReturn = Undefined

\* ----------------------------------------------------------------- actions

\* The first required option that is missing (index.mjs:196-201), 0 if none.
FirstMissing ==
  LET miss == { k \in 1..Len(Required) : Falsy(values.given[Required[k]]) }
  IN IF miss = {} THEN 0 ELSE CHOOSE k \in miss : \A j \in miss : k <= j

\* TopLevelCatch that exits with code 1 in debug mode too.
TopLevelCatch_AlwaysExit(message) ==
  /\ stderr' = Append(stderr, <<"Error", message>>)
  /\ pc' = "exited"
  /\ exitCode' = 1

\* index.mjs:256-262  the catch of the top-level try
TopLevelCatch(message) ==
  /\ stderr' = Append(stderr, <<"Error", message>>)
  /\ IF values.debug
       THEN pc' = "fault" /\ exitCode' = exitCode
       ELSE pc' = "exited" /\ exitCode' = 1

\* index.mjs:191-194
HelpExit ==
  /\ pc = "start"
  /\ values.help
  /\ stdout' = Append(stdout, <<"Usage">>)
  /\ pc' = "exited"
  /\ exitCode' = 0
  /\ UNCHANGED <<fn, values, positionals, now, inflight, sessionKey, csvData, records,
                 i, successCount, errorCount, stderr, calls, answers, reads,
                 visited, pauses>>

\* MissingFlagExit without the process.exit(1): the message, then the run
\* goes on to authenticate.
MissingFlagExit_NoExit ==
  /\ pc = "start"
  /\ ~values.help
  /\ FirstMissing # 0
  /\ stderr' = Append(stderr, <<"Error", Required[FirstMissing], "is required">>)
  /\ stdout' = Append(stdout, <<"Authenticating with Last.fm...">>)
  /\ calls' = Append(calls, [method |-> "auth.getMobileSession"])
  /\ inflight' = inflight \cup {Len(calls) + 1}
  /\ pc' = "auth"
  /\ UNCHANGED <<fn, values, positionals, now, sessionKey, csvData, records, i,
                 successCount, errorCount, exitCode, answers, reads, visited,
                 pauses>>

\* MissingFlagExit not guarded by the help check before it.
MissingFlagExit_BeforeHelp ==
  /\ pc = "start"
  /\ FirstMissing # 0
  /\ stderr' = Append(stderr, <<"Error", Required[FirstMissing], "is required">>)
  /\ pc' = "exited"
  /\ exitCode' = 1
  /\ UNCHANGED <<fn, values, positionals, now, inflight, sessionKey, csvData,
                 records, i, successCount, errorCount, stdout, calls, answers,
                 reads, visited, pauses>>

\* index.mjs:196-201
MissingFlagExit ==
  /\ pc = "start"
  /\ ~values.help
  /\ FirstMissing # 0
  /\ stderr' = Append(stderr, <<"Error", Required[FirstMissing], "is required">>)
  /\ pc' = "exited"
  /\ exitCode' = 1
  /\ UNCHANGED <<fn, values, positionals, now, inflight, sessionKey, csvData, records,
                 i, successCount, errorCount, stdout, calls, answers, reads,
                 visited, pauses>>

\* index.mjs:203-206 and 129-135: the request of getAuthToken is sent
BeginAuth ==
  /\ pc = "start"
  /\ ~values.help
  /\ FirstMissing = 0
  /\ stdout' = Append(stdout, <<"Authenticating with Last.fm...">>)
  /\ calls' = Append(calls, [method |-> "auth.getMobileSession"])
  /\ inflight' = inflight \cup {Len(calls) + 1}
  /\ pc' = "auth"
  /\ UNCHANGED <<fn, values, positionals, now, sessionKey, csvData, records, i,
                 successCount, errorCount, stderr, exitCode, answers, reads,
                 visited, pauses>>

\* What the service may answer to a request: a payload without an error
\* field ("ok"), a payload with one ("error"), no usable answer at all
\* ("netfail": fetch rejects, the body is not JSON), and for
\* auth.getMobileSession a payload with neither an error nor a session.
AuthAnswers == {"ok", "error", "netfail", "nosession"}
ScrobbleAnswers == {"ok", "error", "netfail"}

\* The message of the error getAuthToken / scrobbleTrack ends with.
ErrorMessage(method, answer) ==
  CASE answer = "error" /\ method = "auth.getMobileSession" -> "Last.fm authentication error"
    [] answer = "error" /\ method = "track.scrobble" -> "Last.fm scrobbling error"
    [] answer = "netfail" -> "fetch failed"
    [] OTHER -> "Cannot read properties of undefined"

\* index.mjs:130-141 and 206-210: getAuthToken returns the session key; the
\* read of the input begins
AuthSucceeded ==
  /\ pc = "auth"
  /\ \E d \in Latencies : now' = now + d
  /\ answers' = Append(answers, "ok")
  /\ inflight' = inflight \ {Len(calls)}
  /\ sessionKey' = "SK"
  /\ stdout' = Append(stdout, <<"Authentication successful">>)
  /\ reads' = Append(reads, IF Len(positionals) > 0 THEN "file" ELSE "stdin")
  /\ pc' = "read"
  /\ UNCHANGED <<fn, values, positionals, csvData, records, i, successCount,
                 errorCount, stderr, exitCode, calls, visited, pauses>>

\* AuthFailed with the failure swallowed: the run goes on without a key.
AuthFailed_Ignored ==
  /\ pc = "auth"
  /\ \E d \in Latencies : now' = now + d
  /\ \E answer \in AuthAnswers \ {"ok"} : answers' = Append(answers, answer)
  /\ inflight' = inflight \ {Len(calls)}
  /\ reads' = Append(reads, IF Len(positionals) > 0 THEN "file" ELSE "stdin")
  /\ pc' = "read"
  /\ UNCHANGED <<fn, values, positionals, sessionKey, csvData, records, i,
                 successCount, errorCount, stdout, stderr, exitCode, calls,
                 visited, pauses>>

\* AuthFailed in a script that starts the read without waiting for the
\* session: the input has been read from when the failure arrives.
AuthFailed_ReadsAnyway ==
  /\ pc = "auth"
  /\ \E d \in Latencies : now' = now + d
  /\ \E answer \in AuthAnswers \ {"ok"} :
       /\ answers' = Append(answers, answer)
       /\ TopLevelCatch(ErrorMessage("auth.getMobileSession", answer))
  /\ inflight' = inflight \ {Len(calls)}
  /\ reads' = Append(reads, IF Len(positionals) > 0 THEN "file" ELSE "stdin")
  /\ UNCHANGED <<fn, values, positionals, sessionKey, csvData, records, i,
                 successCount, errorCount, stdout, calls, visited, pauses>>

\* index.mjs:130-139 and 206, 256-262: getAuthToken throws
AuthFailed ==
  /\ pc = "auth"
  /\ \E d \in Latencies : now' = now + d
  /\ \E answer \in AuthAnswers \ {"ok"} :
       /\ answers' = Append(answers, answer)
       /\ TopLevelCatch(ErrorMessage("auth.getMobileSession", answer))
  /\ inflight' = inflight \ {Len(calls)}
  /\ UNCHANGED <<fn, values, positionals, sessionKey, csvData, records, i,
                 successCount, errorCount, stdout, calls, reads, visited, pauses>>

\* index.mjs:161-175 and 210: readInput returns the text
ReadDone ==
  /\ pc = "read"
  /\ \E d \in Latencies : now' = now + d
  /\ \E text \in Inputs : csvData' = [status |-> "read", text |-> text]
  /\ pc' = "parse"
  /\ UNCHANGED <<fn, values, positionals, inflight, sessionKey, records, i,
                 successCount, errorCount, stdout, stderr, exitCode, calls,
                 answers, reads, visited, pauses>>

\* index.mjs:161-175 and 210, 256-262: readInput throws
ReadFailed ==
  /\ pc = "read"
  /\ \E d \in Latencies : now' = now + d
  /\ csvData' = [status |-> "failed", text |-> <<>>]
  /\ TopLevelCatch("read failed")
  /\ UNCHANGED <<fn, values, positionals, inflight, sessionKey, records, i,
                 successCount, errorCount, stdout, calls, answers, reads,
                 visited, pauses>>

\* index.mjs:177-186 and 211-217: parseCsv returns the records
ParseDone ==
  /\ pc = "parse"
  /\ parseCsv(csvData.text, values.header).ok
  /\ records' = parseCsv(csvData.text, values.header).records
  /\ stdout' = Append(stdout, <<"Found", Len(records'), "tracks to scrobble">>)
  /\ pc' = "loop"
  /\ UNCHANGED <<fn, values, positionals, now, inflight, sessionKey, csvData, i,
                 successCount, errorCount, stderr, exitCode, calls, answers,
                 reads, visited, pauses>>

\* index.mjs:177-186 and 211, 256-262: parseCsv throws
ParseFailed ==
  /\ pc = "parse"
  /\ ~parseCsv(csvData.text, values.header).ok
  /\ TopLevelCatch("parse failed")
  /\ UNCHANGED <<fn, values, positionals, now, inflight, sessionKey, csvData, records,
                 i, successCount, errorCount, stdout, calls, answers, reads,
                 visited, pauses>>

\* ResolveFail with the errorCount++ left out.
ResolveFail_NoCount ==
  /\ pc = "loop"
  /\ i < Len(records)
  /\ ~Resolves(records[i + 1], values.header)
  /\ visited' = Append(visited, i)
  /\ stderr' = Append(stderr, <<"Error: Could not determine artist and track from line", i + 1>>)
  /\ i' = i + 1
  /\ UNCHANGED <<fn, values, positionals, pc, now, inflight, sessionKey, csvData,
                 records, successCount, errorCount, stdout, exitCode, calls,
                 answers, reads, pauses>>

\* ResolveFail that throws where the code has continue.
ResolveFail_Throws ==
  /\ pc = "loop"
  /\ i < Len(records)
  /\ ~Resolves(records[i + 1], values.header)
  /\ visited' = Append(visited, i)
  /\ TopLevelCatch("Could not determine artist and track")
  /\ UNCHANGED <<fn, values, positionals, now, inflight, sessionKey, csvData, records,
                 i, successCount, errorCount, stdout, calls, answers, reads,
                 pauses>>

\* index.mjs:217-237: an iteration whose record does not resolve
ResolveFail ==
  /\ pc = "loop"
  /\ i < Len(records)
  /\ ~Resolves(records[i + 1], values.header)
  /\ visited' = Append(visited, i)
  /\ stderr' = Append(stderr, <<"Error: Could not determine artist and track from line", i + 1>>)
  /\ errorCount' = errorCount + 1
  /\ i' = i + 1
  /\ UNCHANGED <<fn, values, positionals, pc, now, inflight, sessionKey, csvData,
                 records, successCount, stdout, exitCode, calls, answers, reads,
                 pauses>>

\* Timestamp with the offset counted from the first row, not from the end.
Timestamp_Forward == (now \div 1000) - i * SpacingSec

\* index.mjs:241
Timestamp == (now \div 1000) - (Len(records) - i) * SpacingSec

\* Submit without the await: the loop goes on while the request is out.
Submit_NoAwait ==
  /\ pc = "loop"
  /\ i < Len(records)
  /\ Resolves(records[i + 1], values.header)
  /\ visited' = Append(visited, i)
  /\ calls' = Append(calls, [method |-> "track.scrobble", row |-> i, sk |-> sessionKey,
                             artist |-> ResolveArtist(records[i + 1], values.header),
                             track |-> ResolveTrack(records[i + 1], values.header),
                             timestamp |-> Timestamp, sentAt |-> now])
  /\ inflight' = inflight \cup {Len(calls) + 1}
  /\ i' = i + 1
  /\ UNCHANGED <<fn, values, positionals, pc, now, sessionKey, csvData, records,
                 successCount, errorCount, stdout, stderr, exitCode, answers,
                 reads, pauses>>

\* index.mjs:217-243 and 144-152: an iteration whose record resolves, up to
\* the request of scrobbleTrack being sent
Submit ==
  /\ pc = "loop"
  /\ i < Len(records)
  /\ Resolves(records[i + 1], values.header)
  /\ visited' = Append(visited, i)
  /\ calls' = Append(calls, [method |-> "track.scrobble", row |-> i, sk |-> sessionKey,
                             artist |-> ResolveArtist(records[i + 1], values.header),
                             track |-> ResolveTrack(records[i + 1], values.header),
                             timestamp |-> Timestamp, sentAt |-> now])
  /\ inflight' = inflight \cup {Len(calls) + 1}
  /\ pc' = "submit"
  /\ UNCHANGED <<fn, values, positionals, now, sessionKey, csvData, records, i,
                 successCount, errorCount, stdout, stderr, exitCode, answers,
                 reads, pauses>>

\* index.mjs:145-158 and 243-248: scrobbleTrack returns; the timer is set
ScrobbleSucceeded ==
  /\ pc = "submit"
  /\ \E d \in Latencies : now' = now + d
  /\ answers' = Append(answers, "ok")
  /\ inflight' = inflight \ {Len(calls)}
  /\ stdout' = Append(stdout, <<"Scrobbled", calls[Len(calls)].artist,
                                calls[Len(calls)].track>>)
  /\ successCount' = successCount + 1
  /\ pauses' = pauses + 1
  /\ pc' = "pause"
  /\ UNCHANGED <<fn, values, positionals, sessionKey, csvData, records, i, errorCount,
                 stderr, exitCode, calls, reads, visited>>

\* ScrobbleFailed without the try/catch of the loop body: the error reaches
\* the top-level catch.
ScrobbleFailed_Rethrown ==
  /\ pc = "submit"
  /\ \E d \in Latencies : now' = now + d
  /\ \E answer \in ScrobbleAnswers \ {"ok"} :
       /\ answers' = Append(answers, answer)
       /\ TopLevelCatch(ErrorMessage("track.scrobble", answer))
  /\ inflight' = inflight \ {Len(calls)}
  /\ UNCHANGED <<fn, values, positionals, sessionKey, csvData, records, successCount,
                 errorCount, i, stdout, calls, reads, visited, pauses>>

\* ScrobbleFailed with the pause taken after the catch as well.
ScrobbleFailed_ThenPause ==
  /\ pc = "submit"
  /\ \E d \in Latencies : now' = now + d
  /\ \E answer \in ScrobbleAnswers \ {"ok"} :
       /\ answers' = Append(answers, answer)
       /\ stderr' = Append(stderr, <<"Error scrobbling", calls[Len(calls)].artist,
                                     calls[Len(calls)].track,
                                     ErrorMessage("track.scrobble", answer)>>)
  /\ inflight' = inflight \ {Len(calls)}
  /\ errorCount' = errorCount + 1
  /\ pauses' = pauses + 1
  /\ pc' = "pause"
  /\ UNCHANGED <<fn, values, positionals, sessionKey, csvData, records, successCount,
                 i, stdout, exitCode, calls, reads, visited>>

\* ScrobbleFailed that tries the same row again.
ScrobbleFailed_Retry ==
  /\ pc = "submit"
  /\ \E d \in Latencies : now' = now + d
  /\ \E answer \in ScrobbleAnswers \ {"ok"} :
       /\ answers' = Append(answers, answer)
       /\ stderr' = Append(stderr, <<"Error scrobbling", calls[Len(calls)].artist,
                                     calls[Len(calls)].track,
                                     ErrorMessage("track.scrobble", answer)>>)
  /\ inflight' = inflight \ {Len(calls)}
  /\ errorCount' = errorCount + 1
  /\ pc' = "loop"
  /\ UNCHANGED <<fn, values, positionals, sessionKey, csvData, records,
                 successCount, i, stdout, exitCode, calls, reads, visited, pauses>>

\* ScrobbleFailed whose catch handles the errors of the service only: a
\* rejected fetch goes on to the top-level catch.
ScrobbleFailed_NetworkUncaught ==
  /\ pc = "submit"
  /\ \E d \in Latencies : now' = now + d
  /\ \E answer \in ScrobbleAnswers \ {"ok"} :
       /\ answers' = Append(answers, answer)
       /\ IF answer = "error"
            THEN /\ stderr' = Append(stderr, <<"Error scrobbling", calls[Len(calls)].artist,
                                               calls[Len(calls)].track,
                                               ErrorMessage("track.scrobble", answer)>>)
                 /\ errorCount' = errorCount + 1
                 /\ i' = i + 1
                 /\ pc' = "loop"
                 /\ UNCHANGED exitCode
            ELSE /\ TopLevelCatch(ErrorMessage("track.scrobble", answer))
                 /\ UNCHANGED <<errorCount, i>>
  /\ inflight' = inflight \ {Len(calls)}
  /\ UNCHANGED <<fn, values, positionals, sessionKey, csvData, records,
                 successCount, stdout, calls, reads, visited, pauses>>

\* index.mjs:145-156 and 243, 249-253, 217: scrobbleTrack throws
ScrobbleFailed ==
  /\ pc = "submit"
  /\ \E d \in Latencies : now' = now + d
  /\ \E answer \in ScrobbleAnswers \ {"ok"} :
       /\ answers' = Append(answers, answer)
       /\ stderr' = Append(stderr, <<"Error scrobbling", calls[Len(calls)].artist,
                                     calls[Len(calls)].track,
                                     ErrorMessage("track.scrobble", answer)>>)
  /\ inflight' = inflight \ {Len(calls)}
  /\ errorCount' = errorCount + 1
  /\ i' = i + 1
  /\ pc' = "loop"
  /\ UNCHANGED <<fn, values, positionals, sessionKey, csvData, records, successCount,
                 stdout, exitCode, calls, reads, visited, pauses>>

\* index.mjs:248 and 217: the timer fires, the iteration ends
PauseDone ==
  /\ pc = "pause"
  /\ now' = now + PauseMs
  /\ i' = i + 1
  /\ pc' = "loop"
  /\ UNCHANGED <<fn, values, positionals, inflight, sessionKey, csvData, records,
                 successCount, errorCount, stdout, stderr, exitCode, calls,
                 answers, reads, visited, pauses>>

\* index.mjs:217 and 255: the loop ends, the summary, the script ends
Summary ==
  /\ pc = "loop"
  /\ ~(i < Len(records))
  /\ stdout' = Append(stdout, <<"Scrobbling complete", successCount, errorCount>>)
  /\ pc' = "done"
  /\ exitCode' = 0
  /\ UNCHANGED <<fn, values, positionals, now, inflight, sessionKey, csvData, records,
                 i, successCount, errorCount, stderr, calls, answers, reads,
                 visited, pauses>>

Next ==
  \/ HelpExit
  \/ MissingFlagExit
  \/ BeginAuth
  \/ AuthSucceeded
  \/ AuthFailed
  \/ ReadDone
  \/ ReadFailed
  \/ ParseDone
  \/ ParseFailed
  \/ ResolveFail
  \/ Submit
  \/ ScrobbleSucceeded
  \/ ScrobbleFailed
  \/ PauseDone
  \/ Summary

Spec == Init /\ [][Next]_vars

\* Every awaited operation ends (a request is answered or fails, a read
\* ends, a timer fires) and the script then takes its next step.
FairSpec == Spec /\ WF_vars(Next)


\* --------------------------------------------------- createSignature alone

\* Most entries a parameter object has.
MaxParams == 3

\* Strings are sequences of characters here, so that join('') is
\* concatenation.  The keys: two plain ones, and U+00E9 (e with acute) next
\* to its canonically equivalent decomposed form U+0065 U+0301.
SigKeys == { <<"s", "k">>, <<"a">>, <<"U+00E9">>, <<"e", "U+0301">> }
SigValues == { <<"1">>, <<"2">> }
SigSecrets == { <<"x">>, <<>> }

\* The canonical decomposition of a string.
RECURSIVE Decompose(_)
Decompose(str) ==
  IF str = <<>> THEN <<>>
  ELSE (IF Head(str) = "U+00E9" THEN <<"e", "U+0301">> ELSE <<Head(str)>>)
         \o Decompose(Tail(str))

\* The place of a character in the collation order.
CharRank(c) ==
  CASE c = "1" -> 1 [] c = "2" -> 2 [] c = "a" -> 3 [] c = "e" -> 4
    [] c = "U+0301" -> 5 [] c = "k" -> 6 [] c = "s" -> 7 [] c = "x" -> 8
    [] OTHER -> 9

\* a before b, character by character.
RECURSIVE LexLess(_, _)
LexLess(a, b) ==
  IF b = <<>> THEN FALSE
  ELSE IF a = <<>> THEN TRUE
  ELSE IF Head(a) = Head(b) THEN LexLess(Tail(a), Tail(b))
  ELSE CharRank(Head(a)) < CharRank(Head(b))

\* a.localeCompare(b): negative, zero or positive; zero for two strings that
\* are canonically equivalent (ECMA-262, String.prototype.localeCompare).
localeCompare(a, b) ==
  IF Decompose(a) = Decompose(b) THEN 0
  ELSE IF LexLess(Decompose(a), Decompose(b)) THEN 0 - 1 ELSE 1

\* One step of a stable sort by key: e goes after every entry that does not
\* compare greater.
RECURSIVE InsertByKey(_, _)
InsertByKey(sorted, e) ==
  IF sorted = <<>> THEN <<e>>
  ELSE IF localeCompare(sorted[Len(sorted)][1], e[1]) <= 0
    THEN Append(sorted, e)
    ELSE Append(InsertByKey(SubSeq(sorted, 1, Len(sorted) - 1), e),
                sorted[Len(sorted)])

\* index.mjs:101-102  Object.entries(params).sort(([a], [b]) => a.localeCompare(b))
\* (Array.prototype.sort is stable)
RECURSIVE SortEntries(_)
SortEntries(entries) ==
  IF entries = <<>> THEN <<>>
  ELSE InsertByKey(SortEntries(SubSeq(entries, 1, Len(entries) - 1)),
                   entries[Len(entries)])

\* index.mjs:103, 107  .flat() and .join(''): the strings one after another
RECURSIVE FlatJoin(_)
FlatJoin(entries) ==
  IF entries = <<>> THEN <<>>
  ELSE entries[1][1] \o entries[1][2] \o FlatJoin(Tail(entries))

\* index.mjs:95-97  the digest of a string; two strings have the same digest
\* only if they are the same string.
md5(str) == [hex |-> str]

\* index.mjs:99-108  params is the sequence of the object's entries in
\* insertion order
createSignature(params, apiSecret) ==
  md5(FlatJoin(SortEntries(params)) \o apiSecret)

\* The parameter objects: entries with different keys, in insertion order.
SigParams ==
  { p \in SeqUpTo(SigKeys \X SigValues, MaxParams) :
      \A k, l \in 1..Len(p) : k # l => p[k][1] # p[l][1] }

\* The state of the script before it runs, for a function called on its own.
Idle ==
  /\ values = [help |-> FALSE, debug |-> FALSE, header |-> FALSE,
               given |-> [ name \in {Required[k] : k \in 1..Len(Required)} |-> "v" ]]
  /\ positionals = <<>>
  /\ now = StartMs
  /\ inflight = {}
  /\ sessionKey = Undefined
  /\ csvData = [status |-> "unread", text |-> <<>>]
  /\ records = <<>>
  /\ i = 0
  /\ successCount = 0
  /\ errorCount = 0
  /\ stdout = <<>>
  /\ stderr = <<>>
  /\ exitCode = NotExited
  /\ calls = <<>>
  /\ answers = <<>>
  /\ reads = <<>>
  /\ visited = <<>>
  /\ pauses = 0

\* All but the variables of the function call.
script == <<values, positionals, now, inflight, sessionKey, csvData, records, i,
            successCount, errorCount, stdout, stderr, exitCode, calls, answers,
            reads, visited, pauses>>

SigInit ==
  /\ Idle
  /\ pc = "createSignature"
  /\ fnCall \in [params : SigParams, apiSecret : SigSecrets]
  /\ fnReturn = Undefined

\* index.mjs:120  createSignature(params, apiSecret)
Sign ==
  /\ pc = "createSignature"
  /\ fnReturn' = createSignature(fnCall.params, fnCall.apiSecret)
  /\ pc' = "returned"
  /\ UNCHANGED <<script, fnCall>>

SigSpec == SigInit /\ [][Sign]_vars

\* ------------------------------------------------- row resolution alone

\* Most columns a row has.
MaxColumns == 3

\* The names a header row is made of, and the fields of a row.
ColumnNames == {"artist", "Artist", "track", "Track", "title", "Title"}
FieldValues == {"", "Radiohead", "Paranoid Android"}

\* A row under a header row of different column names.
Rows ==
  UNION { { [columns |-> c, fields |-> f] :
              c \in { d \in [1..n -> ColumnNames] :
                        \A k, l \in 1..n : k # l => d[k] # d[l] },
              f \in [1..n -> FieldValues] } : n \in 1..MaxColumns }

\* The record csv-parse makes of a row: an object in header mode, the array
\* of the fields otherwise.
RecordOf(row, header) ==
  IF header THEN ToObject(row.columns, row.fields) ELSE row.fields

ResolveInit ==
  /\ Idle
  /\ pc = "resolve"
  /\ fnCall \in [row : Rows, header : BOOLEAN]
  /\ fnReturn = Undefined

\* index.mjs:218-231
Resolve ==
  /\ pc = "resolve"
  /\ fnReturn' = [artist |-> ResolveArtist(RecordOf(fnCall.row, fnCall.header), fnCall.header),
                  track |-> ResolveTrack(RecordOf(fnCall.row, fnCall.header), fnCall.header)]
  /\ pc' = "returned"
  /\ UNCHANGED <<script, fnCall>>

ResolveSpec == ResolveInit /\ [][Resolve]_vars

\* ------------------------------------------------------------------ claims

AuthCalls == { k \in 1..Len(calls) : calls[k].method = "auth.getMobileSession" }
ScrobbleCalls == { k \in 1..Len(calls) : calls[k].method = "track.scrobble" }

\* The summary line was written.
HasSummary == \E k \in 1..Len(stdout) : stdout[k][1] = "Scrobbling complete"

\* The run got past the argument checks (index.mjs:191-201).
Started == pc # "start" /\ ~values.help /\ FirstMissing = 0

\* The session acquisition was answered, and not with a session.
AuthRejected == Len(answers) >= 1 /\ answers[1] # "ok"

\* The rows 0..n-1 in file order.
RowsUpTo(n) == [ k \in 1..n |-> k - 1 ]

\* C1: a run that gets to the authentication step sends the session request
\* exactly once (no run sends it twice); every scrobble request is sent after
\* that one request was answered with a session, and carries its key; when the
\* session request fails, no row is processed (no scrobble request, no row
\* outcome, no summary) and the failure is the one line on the error stream.
C1_AuthOnceBeforeSubmit ==
  /\ Cardinality(AuthCalls) <= 1
  /\ Started => AuthCalls = {1}
  /\ \A k \in ScrobbleCalls :
       /\ k > 1
       /\ answers[1] = "ok"
       /\ calls[k].sk = "SK"
  /\ AuthRejected =>
       /\ pc \in {"exited", "fault"}
       /\ ScrobbleCalls = {}
       /\ visited = <<>>
       /\ successCount = 0 /\ errorCount = 0
       /\ stdout = << <<"Authenticating with Last.fm...">> >>
       /\ stderr = << <<"Error", ErrorMessage("auth.getMobileSession", answers[1])>> >>

\* A scrobble request was sent, after the one session request was answered.
C1_Witness ==
  /\ ScrobbleCalls # {}
  /\ AuthCalls = {1}
  /\ answers[1] = "ok"

\* C2: from the moment the records are parsed, the run reaches the summary,
\* and by then the loop body has entered the rows 0..N-1 in file order, each
\* once, whatever rows failed to resolve or to submit.
C2_LoopVisitsEveryRow ==
  (pc = "loop") ~>
    (pc = "done" /\ visited = RowsUpTo(Len(records)) /\ HasSummary)

\* A finished run of three rows with a resolution failure, a submission
\* failure and a success before the last row.
C2_Witness ==
  /\ pc = "done"
  /\ Len(records) = 3
  /\ visited = <<0, 1, 2>>
  /\ ScrobbleCalls # {}
  /\ Cardinality(ScrobbleCalls) < 3
  /\ \E k \in ScrobbleCalls : k < Len(calls) /\ answers[k] # "ok"


\* The scrobble requests the service accepted, and those that failed.
OkRows == { k \in ScrobbleCalls : k <= Len(answers) /\ answers[k] = "ok" }
FailedRows == { k \in ScrobbleCalls : k <= Len(answers) /\ answers[k] # "ok" }

\* The rows the loop entered and sent no request for.
UnresolvedRows ==
  { r \in 1..Len(visited) : \A k \in ScrobbleCalls : calls[k].row # visited[r] }

\* C3: at the start of iteration i the two counters add up to i; successCount
\* is the number of rows the service accepted and errorCount the number of
\* rows that did not resolve or whose submission failed; the summary reports
\* these two numbers, which add up to N.
C3_CountersTally ==
  /\ pc = "loop" => successCount + errorCount = i
  /\ pc \in {"loop", "done"} =>
       /\ successCount = Cardinality(OkRows)
       /\ errorCount = Cardinality(FailedRows) + Cardinality(UnresolvedRows)
  /\ pc = "done" =>
       /\ successCount + errorCount = Len(records)
       /\ stdout[Len(stdout)] =
            <<"Scrobbling complete", Cardinality(OkRows),
              Len(records) - Cardinality(OkRows)>>

\* Three rows, only the second fails submission: 2 successful, 1 failed.
C3_Witness ==
  /\ pc = "done"
  /\ Len(records) = 3
  /\ answers = <<"ok", "ok", "error", "ok">>
  /\ stdout[Len(stdout)] = <<"Scrobbling complete", 2, 1>>

\* C4: an iteration on a row whose artist or track is absent or empty adds
\* one to errorCount, leaves successCount alone, sends no request and goes on
\* to the next row.
C4_UnresolvedRowSkipped ==
  [][ ( /\ pc = "loop"
        /\ i < Len(records)
        /\ \/ Falsy(ResolveArtist(records[i + 1], values.header))
           \/ Falsy(ResolveTrack(records[i + 1], values.header)) )
      => ( /\ errorCount' = errorCount + 1
           /\ successCount' = successCount
           /\ calls' = calls
           /\ inflight' = {}
           /\ visited' = Append(visited, i)
           /\ i' = i + 1
           /\ pc' = "loop" ) ]_vars

\* No header mode, rows of one column: both rows were counted as errors and
\* no scrobble request was sent.
C4_Witness ==
  /\ ~values.header
  /\ records = << <<"R">>, <<"R">> >>
  /\ visited = <<0, 1>>
  /\ errorCount = 2 /\ successCount = 0
  /\ ScrobbleCalls = {}

\* C5: the timestamp of a row is smaller than that of every later row, and at
\* least 30 seconds smaller than the clock at the moment it is computed.
C5_TimestampsIncrease ==
  \A k \in ScrobbleCalls :
    /\ (calls[k].timestamp + SpacingSec) * 1000 <= calls[k].sentAt
    /\ \A l \in ScrobbleCalls :
         calls[k].row < calls[l].row => calls[k].timestamp < calls[l].timestamp

\* Three rows were submitted.
C5_Witness ==
  /\ Cardinality(ScrobbleCalls) = 3
  /\ \E k \in ScrobbleCalls : calls[k].row = 0 /\ calls[k].sentAt >= StartMs

\* C6: the timestamps of two consecutive rows that are both submitted differ
\* by exactly 30 seconds.
C6_ExactSpacing ==
  \A k, l \in ScrobbleCalls :
    calls[l].row = calls[k].row + 1 =>
      calls[l].timestamp - calls[k].timestamp = SpacingSec

\* C7: a timer has been started for every row the service accepted and for
\* no other row: the number of pauses is the number of accepted rows, which
\* is successCount, also after the last row.
C7_PauseIffSuccess ==
  /\ pauses = Cardinality(OkRows)
  /\ pauses = successCount
  /\ pc = "pause" => answers[Len(answers)] = "ok"

\* A finished run whose last row was accepted and paused after, with a
\* resolution failure and a submission failure before it.
C7_Witness ==
  /\ pc = "done"
  /\ Len(calls) \in OkRows
  /\ calls[Len(calls)].row = Len(records) - 1
  /\ pauses = 1
  /\ FailedRows # {}
  /\ UnresolvedRows # {}

\* C8: at most one request is out, and it is the last one sent; no request
\* is out while the script reads, parses, is at the top of the loop or
\* pauses; a row's request is sent after the pause of every accepted earlier
\* row has elapsed.
C8_OneCallInFlight ==
  /\ Cardinality(inflight) <= 1
  /\ inflight \subseteq {Len(calls)}
  /\ Len(answers) = Len(calls) - Cardinality(inflight)
  /\ pc \in {"read", "parse", "loop", "pause", "done"} => inflight = {}
  /\ \A k, l \in ScrobbleCalls :
       k < l /\ answers[k] = "ok" => calls[l].sentAt >= calls[k].sentAt + PauseMs

\* The request of the third row is out, after one accepted and one failed.
C8_Witness ==
  /\ pc = "submit"
  /\ inflight = {4}
  /\ answers = <<"ok", "ok", "netfail">>

\* The input was read and parsed.
Parsed ==
  /\ csvData.status = "read"
  /\ pc # "parse"
  /\ parseCsv(csvData.text, values.header).ok

\* C9: once the input is parsed the run never ends through the top-level
\* catch: it never has exit code 1, and it ends with the summary and exit
\* code 0, whatever rows failed.
C9_RowFailuresExitZero ==
  Parsed =>
    /\ pc \in {"loop", "submit", "pause", "done"}
    /\ exitCode \in {NotExited, 0}
    /\ pc = "done" => exitCode = 0 /\ HasSummary

\* A finished run in which every row failed, by resolution and by submission.
C9_Witness ==
  /\ pc = "done"
  /\ exitCode = 0
  /\ Len(records) = 3
  /\ successCount = 0 /\ errorCount = 3
  /\ FailedRows # {}
  /\ UnresolvedRows # {}

\* The run failed outside the loop: the session request, the read or the
\* parse.
TopLevelFailure ==
  \/ AuthRejected
  \/ csvData.status = "failed"
  \/ csvData.status = "read" /\ pc # "parse" /\ ~parseCsv(csvData.text, values.header).ok

\* C10: a failure of the session request, the read or the parse writes its
\* message to the error stream, no summary is written, and the run ends with
\* exit code 1 when debug is off and with the error thrown again (no exit
\* code set by the script) when debug is on.
C10_TopLevelFailure ==
  TopLevelFailure =>
    /\ Len(stderr) = 1
    /\ stderr[1][1] = "Error"
    /\ Len(stderr[1]) = 2
    /\ ~HasSummary
    /\ IF values.debug
         THEN pc = "fault" /\ exitCode = NotExited
         ELSE pc = "exited" /\ exitCode = 1

\* Debug mode, the input does not parse: the error is thrown again.
C10_Witness ==
  /\ values.debug
  /\ csvData.status = "read"
  /\ ~parseCsv(csvData.text, values.header).ok
  /\ pc = "fault"


\* A required option is missing: not given, or given empty.
MissingRequired ==
  \E k \in 1..Len(Required) : values.given[Required[k]] \in {Undefined, ""}

\* Nothing was sent and the input was not read.
NoActivity ==
  /\ calls = <<>>
  /\ inflight = {}
  /\ reads = <<>>
  /\ csvData.status = "unread"

\* C11 as stated: a run with a required option missing ends with exit code 1,
\* sends no request and does not read the input.
C11_MissingFlagExitsOne ==
  (MissingRequired /\ pc # "start") =>
    /\ pc = "exited" /\ exitCode = 1
    /\ NoActivity

\* C11, amended: a run with a required option missing and without --help ends
\* with exit code 1 and the message naming the first missing option, sends no
\* request and does not read the input.
C11_MissingFlagExitsOneUnlessHelp ==
  (MissingRequired /\ ~values.help /\ pc # "start") =>
    /\ pc = "exited" /\ exitCode = 1
    /\ \E k \in 1..Len(Required) :
         /\ values.given[Required[k]] \in {Undefined, ""}
         /\ \A j \in 1..(k - 1) : values.given[Required[j]] = "v"
         /\ stderr = << <<"Error", Required[k], "is required">> >>
    /\ stdout = <<>>
    /\ NoActivity

\* Only the password is missing: the run ended with exit code 1.
C11_Witness ==
  /\ values.given["password"] = Undefined
  /\ \A k \in 1..3 : values.given[Required[k]] = "v"
  /\ ~values.help
  /\ pc = "exited"
  /\ exitCode = 1

\* The input was read and some line of it does not parse: a quote is not
\* closed, or two lines have different numbers of fields.
Malformed(text) ==
  \/ \E k \in 1..Len(text) : \E j \in 1..Len(text[k]) : text[k][j] = BadQuote
  \/ \E k, l \in 1..Len(text) :
       text[k] # <<>> /\ text[l] # <<>> /\ Len(text[k]) # Len(text[l])

\* C12: when the input cannot be read, or some line of it is malformed, no
\* row is processed: no scrobble request is sent, no row is visited or
\* counted, no summary is written and the run ends in the top-level catch.
C12_NoPartialResults ==
  ( \/ csvData.status = "failed"
    \/ csvData.status = "read" /\ Malformed(csvData.text) ) =>
      /\ ScrobbleCalls = {}
      /\ visited = <<>>
      /\ records = <<>>
      /\ successCount = 0 /\ errorCount = 0
      /\ ~HasSummary
      /\ pc \in {"parse", "exited", "fault"}

\* The input has two well-formed rows before a malformed third line, and
\* the run failed.
C12_Witness ==
  /\ csvData.status = "read"
  /\ csvData.text = << <<"artist", "title">>, <<"artist", "title">>, <<BadQuote>> >>
  /\ ~values.header
  /\ pc = "exited"

\* The scrobble requests sent for row r.
CallsFor(r) == { k \in ScrobbleCalls : calls[k].row = r }

\* C13: a run that gets to the authentication step sends one session request
\* and no run sends two; no row has two scrobble requests; a row the loop has
\* left has one request if both its fields are there and none otherwise, so
\* at the end the requests are as many as the rows that resolve.
C13_NoRetry ==
  /\ Cardinality(AuthCalls) <= 1
  /\ Started => Cardinality(AuthCalls) = 1
  /\ \A r \in 0..(Len(records) - 1) :
       /\ Cardinality(CallsFor(r)) <= 1
       /\ r < i =>
            Cardinality(CallsFor(r)) =
              IF \/ Falsy(ResolveArtist(records[r + 1], values.header))
                 \/ Falsy(ResolveTrack(records[r + 1], values.header))
                THEN 0 ELSE 1
  /\ pc = "done" =>
       Cardinality(ScrobbleCalls) =
         Cardinality({ r \in 1..Len(records) : Resolves(records[r], values.header) })

\* A finished run in which the submission of the first row failed and the
\* rows after it were submitted: three requests for three rows.
C13_Witness ==
  /\ pc = "done"
  /\ Len(records) = 3
  /\ Len(answers) = 4
  /\ answers[2] = "error"
  /\ Cardinality(ScrobbleCalls) = 3


\* The insertion orders of the entries of a parameter object.
Reorderings(p) ==
  { [ k \in 1..Len(p) |-> p[f[k]] ] :
      f \in { g \in [1..Len(p) -> 1..Len(p)] :
                \A k, l \in 1..Len(p) : k # l => g[k] # g[l] } }

Column(row, name) ==
  IF \E k \in 1..Len(row.columns) : row.columns[k] = name
    THEN row.fields[CHOOSE k \in 1..Len(row.columns) : row.columns[k] = name]
    ELSE Undefined

\* x is the first non-empty field of the row among the columns names, in
\* that order; when there is none, x is empty or absent.
IsFirstNonEmpty(x, row, names) ==
  IF \E k \in 1..Len(names) : Column(row, names[k]) \notin {Undefined, ""}
    THEN \E k \in 1..Len(names) :
           /\ x = Column(row, names[k])
           /\ x \notin {Undefined, ""}
           /\ \A j \in 1..(k - 1) : Column(row, names[j]) \in {Undefined, ""}
    ELSE x \in {Undefined, ""}

\* The row with its columns (and their fields) in another order.
ColumnOrders(row) ==
  { [columns |-> [ k \in 1..Len(row.columns) |-> row.columns[f[k]] ],
     fields  |-> [ k \in 1..Len(row.columns) |-> row.fields[f[k]] ]] :
      f \in { g \in [1..Len(row.columns) -> 1..Len(row.columns)] :
                \A k, l \in 1..Len(row.columns) : k # l => g[k] # g[l] } }

\* C15: in header mode the artist is the first non-empty field among the
\* columns artist, Artist and the track the first non-empty field among
\* track, Track, title, Title, whatever the order of the columns; without a
\* header the artist is the first field and the track the second.
C15_Resolution ==
  pc = "resolve" \/
    IF fnCall.header
      THEN /\ IsFirstNonEmpty(fnReturn.artist, fnCall.row, <<"artist", "Artist">>)
           /\ IsFirstNonEmpty(fnReturn.track, fnCall.row,
                              <<"track", "Track", "title", "Title">>)
           /\ \A r \in ColumnOrders(fnCall.row) :
                /\ ResolveArtist(RecordOf(r, TRUE), TRUE) = fnReturn.artist
                /\ ResolveTrack(RecordOf(r, TRUE), TRUE) = fnReturn.track
      ELSE /\ fnReturn.artist = fnCall.row.fields[1]
           /\ fnReturn.track = IF Len(fnCall.row.fields) >= 2
                                 THEN fnCall.row.fields[2] ELSE Undefined

\* Header "Title,Artist", row "Paranoid Android,Radiohead".
C15_Witness ==
  /\ pc = "returned"
  /\ fnCall = [row |-> [columns |-> <<"Title", "Artist">>,
                        fields |-> <<"Paranoid Android", "Radiohead">>],
               header |-> TRUE]
  /\ fnReturn = [artist |-> "Radiohead", track |-> "Paranoid Android"]


\* The number of the line of the input that record r (from 0) was made of:
\* empty lines count, and so does the header row.
LineOf(text, header, r) ==
  CHOOSE n \in 1..Len(text) :
    /\ text[n] # <<>>
    /\ Cardinality({ j \in 1..n : text[j] # <<>> }) = r + 1 + (IF header THEN 1 ELSE 0)

\* The resolution failures reported, and the rows that failed, in order.
ResolutionReports ==
  SelectSeq(stderr, LAMBDA m :
    m[1] = "Error: Could not determine artist and track from line")
UnresolvedVisited ==
  SelectSeq(visited, LAMBDA r : ~Resolves(records[r + 1], values.header))

\* C16: the number in the report of a resolution failure is the number of
\* the row's line in the input.
C16_ReportsLineNumber ==
  \A k \in 1..Len(ResolutionReports) :
    ResolutionReports[k][2] = LineOf(csvData.text, values.header, UnresolvedVisited[k])

\* C17: the input is read only after the session request was sent and
\* answered with a session; a run whose read or parse fails has sent one
\* session request and no scrobble request; a run whose session request
\* fails has not read the input.
C17_AuthBeforeRead ==
  /\ (reads # <<>> \/ csvData.status # "unread") =>
       /\ AuthCalls = {1}
       /\ Len(answers) >= 1 /\ answers[1] = "ok"
       /\ Len(reads) = 1
  /\ ( \/ csvData.status = "failed"
       \/ csvData.status = "read" /\ Malformed(csvData.text) ) =>
       /\ Cardinality(AuthCalls) = 1
       /\ ScrobbleCalls = {}
  /\ AuthRejected =>
       /\ reads = <<>>
       /\ csvData.status = "unread"

\* The read of the file failed after the one session request.
C17_Witness ==
  /\ csvData.status = "failed"
  /\ reads = <<"file">>
  /\ Len(calls) = 1
  /\ pc \in {"exited", "fault"}

\* The requests that got no usable answer.
Unanswered == { k \in 1..Len(answers) : answers[k] \in {"netfail", "nosession"} }

\* C18: a scrobble request that fails on the network is a failure of its
\* row: it is reported like an error of the service, counted in errorCount,
\* followed by no pause, and the loop goes on; a session request that fails
\* on the network, or is answered without error and without session, ends
\* the run in the top-level catch with no key and no row processed.
C18_NetworkFailure ==
  \A k \in Unanswered :
    IF k \in AuthCalls
      THEN /\ pc \in {"exited", "fault"}
           /\ sessionKey = Undefined
           /\ reads = <<>>
           /\ visited = <<>> /\ ScrobbleCalls = {}
           /\ stderr = << <<"Error", ErrorMessage("auth.getMobileSession", answers[k])>> >>
      ELSE /\ pc \in {"loop", "submit", "pause", "done"}
           /\ i > calls[k].row
           /\ \E e \in 1..Len(stderr) :
                stderr[e] = <<"Error scrobbling", calls[k].artist, calls[k].track,
                              "fetch failed">>
           /\ pauses = Cardinality(OkRows)
           /\ errorCount >= Cardinality(Unanswered)
           /\ pc = "done" => errorCount = Cardinality(FailedRows) + Cardinality(UnresolvedRows)

\* The first row failed on the network, the second was accepted after it.
C18_Witness ==
  /\ Len(answers) = 3
  /\ answers = <<"ok", "netfail", "ok">>
  /\ errorCount = 1 /\ successCount = 1 /\ pauses = 1

\* C19: a run with --help prints the help and ends with exit code 0, sends
\* no request and does not read the input, whether or not required options
\* are missing.
C19_HelpFirst ==
  (values.help /\ pc # "start") =>
    /\ pc = "exited" /\ exitCode = 0
    /\ stdout = << <<"Usage">> >>
    /\ stderr = <<>>
    /\ NoActivity

\* --help with no other option given.
C19_Witness ==
  /\ values.help
  /\ \A k \in 1..Len(Required) : values.given[Required[k]] = Undefined
  /\ pc = "exited"
  /\ exitCode = 0
  /\ stdout = << <<"Usage">> >>

====
